---- MODULE Spec2Model ----
(***************************************************************************)
(* A model of dynel: the State / Event primitives of src/utils.ts and the  *)
(* Dynel component engine of src/dynel.ts.                                 *)
(*                                                                         *)
(* JavaScript runs every turn to completion, so one action of the model is *)
(* one turn: a call made from outside together with every callback it      *)
(* runs synchronously.  The program's functions are operators that take    *)
(* the whole program state as a record (the "environment" e) and return    *)
(* the state they leave; e.exc says that an exception is propagating.      *)
(***************************************************************************)
EXTENDS Integers, Sequences, FiniteSets, TLC

VARIABLES
  now,               \* the reading Date.now() gives
  states,            \* the State objects ever constructed, by reference
  stateInstanceMap,  \* State.instanceMap: name -> reference
  cbs,               \* the callback functions ever created, by reference
  calls,             \* the callback invocations the last turn made, in order
  fetchCache,        \* Dynel.fetchCache: kind -> reference of a State
  requests,          \* the external fetches issued, with their continuations
  config,            \* Dynel.baseUrl, Dynel.extension, Dynel.propPrefix
  elems,             \* the Dynel elements ever constructed, by reference
  nodes,             \* the nodes of the document trees ever created, by reference
  events,            \* the Event objects ever constructed, by reference
  eventInstanceMap,  \* Event.instanceMap: name -> reference
  dynelInstanceMap,  \* Dynel.instanceMap: uid -> reference
  lastOp,            \* the call the last turn made, and how it ended
  turns              \* the number of turns taken

vars == <<now, states, stateInstanceMap, cbs, calls, fetchCache, requests,
          config, elems, nodes, events, eventInstanceMap, dynelInstanceMap, lastOp, turns>>

----------------------------------------------------------------------------
(* Bounds of the model *)

MaxTurnsFetch == 5
MaxTurnsState == 5
MaxTurnsProps == 5

----------------------------------------------------------------------------
(* Values *)

Undef == [t |-> "undefined", v |-> 0, s |-> ""]
Num(n) == [t |-> "number", v |-> n, s |-> ""]
StrV(x) == [t |-> "string", v |-> 0, s |-> x]
Node(n) == [t |-> "node", v |-> n, s |-> ""]      \* a reference to nodes[n]

\* String(x)
JsString(x) ==
  CASE x.t = "number" -> StrV(ToString(x.v))
    [] x.t = "undefined" -> StrV("undefined")
    [] x.t = "node" -> StrV("[object HTMLElement]")
    [] OTHER -> x

\* JavaScript's ToBoolean on the values of the model
Truthy(x) ==
  ~(\/ x.t = "undefined"
    \/ (x.t = "number" /\ x.v = 0)
    \/ (x.t = "string" /\ x.s = ""))

NoName == "<none>"

Kinds == {"a-el", "b-el"}

----------------------------------------------------------------------------
(* The environment *)

Env ==
  [now |-> now, states |-> states, stateInstanceMap |-> stateInstanceMap,
   cbs |-> cbs, calls |-> <<>>, fetchCache |-> fetchCache,
   requests |-> requests, config |-> config, elems |-> elems, nodes |-> nodes,
   events |-> events, eventInstanceMap |-> eventInstanceMap,
   dynelInstanceMap |-> dynelInstanceMap, exc |-> FALSE, depth |-> 0, ret |-> 0]

Commit(e, op, max) ==
  /\ turns < max
  /\ now' = e.now
  /\ states' = e.states
  /\ stateInstanceMap' = e.stateInstanceMap
  /\ cbs' = e.cbs
  /\ calls' = e.calls
  /\ fetchCache' = e.fetchCache
  /\ requests' = e.requests
  /\ config' = e.config
  /\ elems' = e.elems
  /\ nodes' = e.nodes
  /\ events' = e.events
  /\ eventInstanceMap' = e.eventInstanceMap
  /\ dynelInstanceMap' = e.dynelInstanceMap
  /\ lastOp' = [op EXCEPT !.threw = e.exc]
  /\ turns' = turns + 1

Put(f, k, x) == [j \in DOMAIN f \cup {k} |-> IF j = k THEN x ELSE f[j]]

----------------------------------------------------------------------------
(* Callbacks.  A callback is a closure; beh is what its body does:          *)
(*   "plain"   returns                                                      *)
(*   "throw"   throws                                                       *)
(*   "reset"   when its argument is not w, calls set(w) on the State st, or  *)
(*             State.set(key, w) when it holds a key instead                *)
(*   "refetch" calls Dynel.fetch(kind, a fresh plain callback)              *)
(*   "connected" is the closure of connectedCallback of the element el      *)
(*   "setprop" when its argument is not w, calls Dynel.setProp(uid, name, w) *)
(*   "probe"   a listener that records what it finds when it is called      *)
(* kind, uid and name record the call that handed the callback over:        *)
(* Dynel.fetch(kind, cb), Dynel.onProp(uid, name, cb), onState(uid, name, cb); *)
(* got is what a callback handed to Dynel.fetch has been called with so far *)

Callback(beh) ==
  [beh |-> beh, st |-> 0, key |-> "", w |-> Undef, kind |-> "", uid |-> "",
   name |-> "", el |-> 0, got |-> <<>>]

NewCb(e, c) == [e EXCEPT !.cbs = Append(@, c)]

RECURSIVE Invoke(_, _, _)
RECURSIVE ForEachCb(_, _, _, _)
RECURSIVE StateSetInst(_, _, _)
RECURSIVE DynelFetch(_, _, _)

----------------------------------------------------------------------------
(* Strings *)

\* s.startsWith(p)
StartsWith(s, p) == Len(s) >= Len(p) /\ SubSeq(s, 1, Len(p)) = p

\* the least index at or after i where p occurs in s, 0 when there is none
RECURSIVE IndexOf(_, _, _)
IndexOf(s, p, i) ==
  IF i + Len(p) - 1 > Len(s) THEN 0
  ELSE IF SubSeq(s, i, i + Len(p) - 1) = p THEN i
  ELSE IndexOf(s, p, i + 1)

\* s.replace(p, r) with a string pattern: the first occurrence only
ReplaceFirst(s, p, r) ==
  LET i == IndexOf(s, p, 1)
  IN IF i = 0 THEN s
     ELSE SubSeq(s, 1, i - 1) \o r \o SubSeq(s, i + Len(p), Len(s))

\* s.replaceAll(p, r) with a non-empty string pattern
RECURSIVE ReplaceAllFrom(_, _, _, _)
ReplaceAllFrom(s, p, r, from) ==
  LET i == IndexOf(s, p, from)
  IN IF i = 0 THEN SubSeq(s, from, Len(s))
     ELSE SubSeq(s, from, i - 1) \o r \o ReplaceAllFrom(s, p, r, i + Len(p))

ReplaceAll(s, p, r) == ReplaceAllFrom(s, p, r, 1)

----------------------------------------------------------------------------
(* The document tree.  A node is an element: its tag, its attributes in the *)
(* order they were set, its text, its child elements and its parent (0 for  *)
(* none).  ns is the sequence of all nodes, a reference is an index in it.  *)

NewNode(tag) ==
  [tag |-> tag, attrs |-> <<>>, text |-> "", kids |-> <<>>, parent |-> 0]

Range(f) == {f[i] : i \in DOMAIN f}

Remove(seq, x) == SelectSeq(seq, LAMBDA y : y # x)

RECURSIVE Substitute(_, _, _)
Substitute(seq, x, y) ==
  IF seq = <<>> THEN <<>>
  ELSE <<IF Head(seq) = x THEN y ELSE Head(seq)>> \o Substitute(Tail(seq), x, y)

HasAttribute(n, name) == \E i \in DOMAIN n.attrs : n.attrs[i].name = name

\* n.getAttribute(name) ?? default
GetAttributeOr(n, name, default) ==
  IF HasAttribute(n, name)
    THEN (CHOOSE a \in Range(n.attrs) : a.name = name).value
    ELSE default

\* attrs after setAttribute(name, value)
RECURSIVE Overwrite(_, _, _)
Overwrite(attrs, name, value) ==
  IF attrs = <<>> THEN <<>>
  ELSE <<IF Head(attrs).name = name THEN [name |-> name, value |-> value] ELSE Head(attrs)>>
         \o Overwrite(Tail(attrs), name, value)

WithAttribute(attrs, name, value) ==
  IF \E i \in DOMAIN attrs : attrs[i].name = name
    THEN Overwrite(attrs, name, value)
    ELSE Append(attrs, [name |-> name, value |-> value])

\* the parsing of a template text into the children of a fresh node: the text
\* is given as the tree it parses to, t.kids the trees of the child elements
RECURSIVE AllocTree(_, _, _)
RECURSIVE AllocKids(_, _, _, _)
AllocTree(ns, t, parent) ==
  LET id == Len(ns) + 1
      n == [tag |-> t.tag, attrs |-> t.attrs, text |-> t.text, kids |-> <<>>,
            parent |-> parent]
  IN AllocKids(Append(ns, n), id, t.kids, 1)

AllocKids(ns, id, ks, i) ==
  IF i > Len(ks) THEN ns
  ELSE LET ns1 == AllocTree(ns, ks[i], id)
       IN AllocKids([ns1 EXCEPT ![id].kids = Append(@, Len(ns) + 1)], id, ks, i + 1)

\* node.cloneNode(true): the copy's reference is Len(ns) + 1
RECURSIVE CloneInto(_, _, _)
RECURSIVE CloneKids(_, _, _, _)
CloneInto(ns, src, parent) ==
  LET id == Len(ns) + 1
  IN CloneKids(Append(ns, [ns[src] EXCEPT !.kids = <<>>, !.parent = parent]),
               id, ns[src].kids, 1)

CloneKids(ns, id, ks, i) ==
  IF i > Len(ks) THEN ns
  ELSE LET ns1 == CloneInto(ns, ks[i], id)
       IN CloneKids([ns1 EXCEPT ![id].kids = Append(@, Len(ns) + 1)], id, ks, i + 1)

\* the descendants of a node in document order
RECURSIVE Descendants(_, _)
RECURSIVE DescendantsOfAll(_, _, _)
Descendants(ns, id) == DescendantsOfAll(ns, ns[id].kids, 1)

DescendantsOfAll(ns, ks, i) ==
  IF i > Len(ks) THEN <<>>
  ELSE <<ks[i]>> \o Descendants(ns, ks[i]) \o DescendantsOfAll(ns, ks, i + 1)

\* node.querySelectorAll of a list of tag names: a static list
QuerySelectorAll(ns, id, tags) ==
  SelectSeq(Descendants(ns, id), LAMBDA d : ns[d].tag \in tags)

\* node.querySelector('[ref="refName"]'): the first match in document order,
\* 0 standing for null
QuerySelectorRef(ns, id, refName) ==
  LET found == SelectSeq(Descendants(ns, id),
                         LAMBDA d : /\ HasAttribute(ns[d], "ref")
                                    /\ GetAttributeOr(ns[d], "ref", "") = refName)
  IN IF found = <<>> THEN 0 ELSE Head(found)

\* the ancestors of a node, itself included
RECURSIVE InclusiveAncestors(_, _)
InclusiveAncestors(ns, id) ==
  IF id = 0 THEN {} ELSE {id} \cup InclusiveAncestors(ns, ns[id].parent)

\* ns with node taken out of the child list of its parent
Detach(ns, node) ==
  LET p == ns[node].parent
  IN IF p = 0 THEN ns
     ELSE [ns EXCEPT ![p].kids = Remove(ns[p].kids, node), ![node].parent = 0]

\* the node put at the end of the parent's children, elem taken out
ReplaceWithAppended(e, elem, node) ==
  LET parent == e.nodes[elem].parent
  IN IF parent = 0 THEN e
     ELSE LET ns1 == Detach(e.nodes, node)
          IN [e EXCEPT !.nodes = [ns1 EXCEPT ![parent].kids = Append(Remove(ns1[parent].kids, elem), node),
                                              ![node].parent = parent,
                                              ![elem].parent = 0]]

\* elem.replaceWith(node): nothing without a parent, a HierarchyRequestError when
\* node is an ancestor of the parent
ReplaceWith(e, elem, node) ==
  LET parent == e.nodes[elem].parent
  IN IF parent = 0 THEN e
     ELSE IF node \in InclusiveAncestors(e.nodes, parent) THEN [e EXCEPT !.exc = TRUE]
     ELSE LET ns1 == Detach(e.nodes, node)
          IN [e EXCEPT !.nodes = [ns1 EXCEPT ![parent].kids = Substitute(ns1[parent].kids, elem, node),
                                              ![node].parent = parent,
                                              ![elem].parent = 0]]

\* root.replaceChildren(...kids)
RECURSIVE Adopt(_, _, _, _)
Adopt(ns, root, ks, i) ==
  IF i > Len(ks) THEN ns
  ELSE LET ns1 == Detach(ns, ks[i])
       IN Adopt([ns1 EXCEPT ![root].kids = Append(ns1[root].kids, ks[i]), ![ks[i]].parent = root],
                root, ks, i + 1)

\* the children ks of a node lose their parent
RECURSIVE Orphan(_, _, _)
Orphan(ns, ks, i) ==
  IF i > Len(ks) THEN ns
  ELSE Orphan([ns EXCEPT ![ks[i]].parent = 0], ks, i + 1)

ReplaceChildren(ns, root, ks) ==
  Adopt([Orphan(ns, ns[root].kids, 1) EXCEPT ![root].kids = <<>>], root, ks, 1)

\* the tree below a node, as a value
RECURSIVE Snapshot(_, _)
RECURSIVE SnapshotAll(_, _, _)
Snapshot(ns, id) ==
  [tag |-> ns[id].tag, attrs |-> ns[id].attrs, text |-> ns[id].text,
   kids |-> SnapshotAll(ns, ns[id].kids, 1)]

SnapshotAll(ns, ks, i) ==
  IF i > Len(ks) THEN <<>>
  ELSE <<Snapshot(ns, ks[i])>> \o SnapshotAll(ns, ks, i + 1)

----------------------------------------------------------------------------
(* class State, src/utils.ts *)

\* State.registerInstance(name, instance)
StateRegisterInstance(e, name, s) ==
  [e EXCEPT !.stateInstanceMap = Put(e.stateInstanceMap, name, s)]

\* new State(initialValue, name); the new object's reference is Len(e.states) + 1
StateNew(e, initialValue, name) ==
  LET nm == IF name = NoName THEN ToString(e.now) ELSE name
      s == Len(e.states) + 1
      e1 == [e EXCEPT !.states = Append(@, [name |-> nm, value |-> initialValue,
                                            setCallbacks |-> <<>>])]
  IN StateRegisterInstance(e1, nm, s)

\* state.subscribe(cb)
StateSubscribeInst(e, s, cb) ==
  [e EXCEPT !.states[s].setCallbacks = Append(@, cb)]

\* state.get()
StateGetInst(e, s) == e.states[s].value

\* this.setCallbacks.forEach((cb) => cb(this.value)): the range is fixed when
\* forEach starts, the argument is read at each call, a throw ends the loop
ForEachCb(e, s, n, i) ==
  IF i > n \/ e.exc THEN e
  ELSE ForEachCb(Invoke(e, e.states[s].setCallbacks[i], e.states[s].value), s, n, i + 1)

\* state.set(newValue)
\* (two variants that are not the code's: one that stores the value only when
\* nobody subscribed, one that leaves out the notifications of a nested call)
StateSetInstLost(e, s, newValue) ==
  LET e1 == [e EXCEPT !.states[s].value = newValue]
  IN ForEachCb(IF e.states[s].setCallbacks = <<>> THEN e1 ELSE e,
               s, Len(e.states[s].setCallbacks), 1)

StateSetInstDeferred(e, s, newValue) ==
  LET e1 == [e EXCEPT !.states[s].value = newValue]
  IN IF e.depth > 0 THEN e1 ELSE ForEachCb(e1, s, Len(e1.states[s].setCallbacks), 1)

StateSetInst(e, s, newValue) ==
  LET e1 == [e EXCEPT !.states[s].value = newValue]
  IN ForEachCb(e1, s, Len(e1.states[s].setCallbacks), 1)

\* State.subscribe(name, cb), the overload taking a name
StateSubscribe(e, name, cb) ==
  IF name \in DOMAIN e.stateInstanceMap
    THEN StateSubscribeInst(e, e.stateInstanceMap[name], cb)
    ELSE e

\* State.set(name, newValue)
\* (has(name) ? instanceMap : instanceMap.set(name, new State(undefined, name)))
StateGetOrCreate(e, name) ==
  IF name \in DOMAIN e.stateInstanceMap THEN e
  ELSE StateRegisterInstance(StateNew(e, Undef, name), name, Len(e.states) + 1)

\* .get(name)!.set(newValue)
StateSetNamed(e, name, newValue) == StateSetInst(e, e.stateInstanceMap[name], newValue)

StateSet(e, name, newValue) == StateSetNamed(StateGetOrCreate(e, name), name, newValue)

\* State.get(name)
StateGet(e, name) ==
  IF name \in DOMAIN e.stateInstanceMap
    THEN StateGetInst(e, e.stateInstanceMap[name])
    ELSE Undef

----------------------------------------------------------------------------
(* class Event, src/utils.ts *)

\* Event.registerInstance(name, instance)
EventRegisterInstance(e, name, ev) ==
  [e EXCEPT !.eventInstanceMap = Put(e.eventInstanceMap, name, ev)]

\* new Event(name); the new object's reference is Len(e.events) + 1
EventNew(e, name) ==
  EventRegisterInstance([e EXCEPT !.events = Append(@, [name |-> name, listeners |-> <<>>])],
                        name, Len(e.events) + 1)

\* event.addListener(listener)
EventAddListenerInst(e, ev, listener) ==
  [e EXCEPT !.events[ev].listeners = Append(@, listener)]

\* this.listeners.forEach((listener) => listener(payload))
RECURSIVE ForEachListener(_, _, _, _, _)
ForEachListener(e, ev, payload, n, i) ==
  IF i > n \/ e.exc THEN e
  ELSE ForEachListener(Invoke(e, e.events[ev].listeners[i], payload), ev, payload, n, i + 1)

\* event.trigger(payload)
EventTriggerInst(e, ev, payload) ==
  ForEachListener(e, ev, payload, Len(e.events[ev].listeners), 1)

\* Event.addListener(name, listener)
\* (has(name) ? instanceMap : instanceMap.set(name, new Event(name)))
EventGetOrCreate(e, name) ==
  IF name \in DOMAIN e.eventInstanceMap THEN e
  ELSE EventRegisterInstance(EventNew(e, name), name, Len(e.events) + 1)

\* .get(name)!.addListener(listener)
EventAddListenerNamed(e, name, listener) ==
  EventAddListenerInst(e, e.eventInstanceMap[name], listener)

EventAddListener(e, name, listener) ==
  EventAddListenerNamed(EventGetOrCreate(e, name), name, listener)

\* Event.trigger(name, payload)
EventTrigger(e, name, payload) ==
  IF name \in DOMAIN e.eventInstanceMap
    THEN EventTriggerInst(e, e.eventInstanceMap[name], payload)
    ELSE e

----------------------------------------------------------------------------
(* The text of embedded scripts and styles, src/dynel.ts *)

WordChars ==
  {"a", "b", "c", "d", "e", "f", "g", "h", "i", "j", "k", "l", "m", "n", "o", "p",
   "q", "r", "s", "t", "u", "v", "w", "x", "y", "z",
   "A", "B", "C", "D", "E", "F", "G", "H", "I", "J", "K", "L", "M", "N", "O", "P",
   "Q", "R", "S", "T", "U", "V", "W", "X", "Y", "Z",
   "0", "1", "2", "3", "4", "5", "6", "7", "8", "9", "_"}
SpaceChars == {" ", "\t", "\n", "\r", "\f"}

\* the character of s at i, "" past its end
At(s, i) == IF i >= 1 /\ i <= Len(s) THEN SubSeq(s, i, i) ELSE ""

\* whether lit stands in s at i
LitAt(s, i, lit) == i + Len(lit) - 1 <= Len(s) /\ SubSeq(s, i, i + Len(lit) - 1) = lit

\* the first index from i on whose character is not in cs: a greedy cs*
RECURSIVE Skip(_, _, _)
Skip(s, i, cs) == IF At(s, i) \in cs THEN Skip(s, i + 1, cs) ELSE i

\* (\-\w+)* from i: the index after the last group
RECURSIVE SkipDashed(_, _)
SkipDashed(s, i) ==
  IF At(s, i) = "-" /\ At(s, i + 1) \in WordChars
    THEN SkipDashed(s, Skip(s, i + 1, WordChars))
    ELSE i

\* "((\w+)(\-\w+)*)" from i with the quotes: the index after the closing
\* quote, 0 when it does not match
QuotedNameEnd(s, i) ==
  IF At(s, i) # "\"" \/ At(s, i + 1) \notin WordChars THEN 0
  ELSE LET j == SkipDashed(s, Skip(s, i + 1, WordChars))
       IN IF At(s, j) = "\"" THEN j + 1 ELSE 0

\* the first of the function names fns that stands in s at i, "" for none
RECURSIVE FnAt(_, _, _, _)
FnAt(s, i, fns, k) ==
  IF k > Len(fns) THEN ""
  ELSE IF LitAt(s, i, fns[k]) THEN fns[k]
  ELSE FnAt(s, i, fns, k + 1)

\* /(\$(onProp|onState))\s*\(\s*"((\w+)(\-\w+)*)"/ at i: the function, the
\* quoted name and the index after the match; end = 0 when it does not match
MatchSubscribeCall(s, i) ==
  LET fn == FnAt(s, i, <<"$onProp", "$onState">>, 1)
      p == Skip(s, i + Len(fn), SpaceChars)
      q == Skip(s, p + 1, SpaceChars)
      end == QuotedNameEnd(s, q)
  IN IF fn = "" \/ At(s, p) # "(" \/ end = 0
       THEN [end |-> 0, fn |-> "", name |-> ""]
       ELSE [end |-> end, fn |-> fn, name |-> SubSeq(s, q + 1, end - 2)]

\* /(\$(prop|ref|state))\(\s*"((\w+)(\-\w+)*)"\s*/ at i
MatchAccessCall(s, i) ==
  LET fn == FnAt(s, i, <<"$prop", "$ref", "$state">>, 1)
      p == i + Len(fn)
      q == Skip(s, p + 1, SpaceChars)
      end == QuotedNameEnd(s, q)
  IN IF fn = "" \/ At(s, p) # "(" \/ end = 0
       THEN [end |-> 0, fn |-> "", name |-> ""]
       ELSE [end |-> Skip(s, end, SpaceChars), fn |-> fn, name |-> SubSeq(s, q + 1, end - 2)]

\* text.replaceAll(/(\$(onProp|onState)).../g, `$1("${uid}", "$3"`) from i on
RECURSIVE RewriteSubscribeCalls(_, _, _)
RewriteSubscribeCalls(s, i, uid) ==
  IF i > Len(s) THEN ""
  ELSE LET m == MatchSubscribeCall(s, i)
       IN IF m.end = 0 THEN At(s, i) \o RewriteSubscribeCalls(s, i + 1, uid)
          ELSE m.fn \o "(\"" \o uid \o "\", \"" \o m.name \o "\""
                 \o RewriteSubscribeCalls(s, m.end, uid)

\* text.replaceAll(/(\$(prop|ref|state)).../g, `$1("${uid}","$3"`) from i on
RECURSIVE RewriteAccessCalls(_, _, _)
RewriteAccessCalls(s, i, uid) ==
  IF i > Len(s) THEN ""
  ELSE LET m == MatchAccessCall(s, i)
       IN IF m.end = 0 THEN At(s, i) \o RewriteAccessCalls(s, i + 1, uid)
          ELSE m.fn \o "(\"" \o uid \o "\",\"" \o m.name \o "\""
                 \o RewriteAccessCalls(s, m.end, uid)

\* the text prepareScript leaves in a script
PrepareScriptText(text, uid) ==
  RewriteAccessCalls(RewriteSubscribeCalls(text, 1, uid), 1, uid)

\* /(\[\s*ref\s*=\s*"(\w+)"\s*\])/ at i: the index after the match, 0 for none
MatchRefSelector(s, i) ==
  LET a == Skip(s, i + 1, SpaceChars)
      b == Skip(s, a + 3, SpaceChars)
      c == Skip(s, b + 1, SpaceChars)
      d == Skip(s, c + 1, WordChars)
      f == Skip(s, d + 1, SpaceChars)
  IN IF /\ At(s, i) = "[" /\ LitAt(s, a, "ref") /\ At(s, b) = "="
        /\ At(s, c) = "\"" /\ d > c + 1 /\ At(s, d) = "\"" /\ At(s, f) = "]"
       THEN f + 1 ELSE 0

\* text.replaceAll(/(\[\s*ref\s*=\s*"(\w+)"\s*\])/g, `${name} $1`) from i on
RECURSIVE RewriteRefSelectors(_, _, _)
RewriteRefSelectors(s, i, name) ==
  IF i > Len(s) THEN ""
  ELSE LET end == MatchRefSelector(s, i)
       IN IF end = 0 THEN At(s, i) \o RewriteRefSelectors(s, i + 1, name)
          ELSE name \o " " \o SubSeq(s, i, end - 1) \o RewriteRefSelectors(s, end, name)

\* the text prepareStyle leaves in a style
PrepareStyleText(text, name, useShadow) ==
  IF useShadow THEN text
  ELSE ReplaceAll(RewriteRefSelectors(text, 1, name), "self", name)

----------------------------------------------------------------------------
(* class Dynel, src/dynel.ts *)

Url(e, kind) == e.config.baseUrl \o kind \o e.config.extension

\* the uid of the constructor: Date.now() * 100 + Math.trunc(Math.random() * 10000),
\* draw being the truncated product
UidScale == 100
RandomRange == 10000
Draws == {0, UidScale}

NewUid(e, draw) == ToString(e.now * UidScale + draw)

\* Dynel.registerInstance(uid, instance)
DynelRegisterInstance(e, uid, el) ==
  [e EXCEPT !.dynelInstanceMap = Put(e.dynelInstanceMap, uid, el)]

\* this.attachShadow({ mode: "open" }): the shadow root's reference is Len(e.nodes) + 1
AttachShadow(e) == [e EXCEPT !.nodes = Append(@, NewNode("#shadow-root"))]

\* the constructor of the class Dynel.define(name, sourceId, useShadow) registers:
\* super(), then its own assignments; the element's reference is Len(e.elems) + 1
DynelNew(e, name, sourceId, useShadow, draw) ==
  LET uid == NewUid(e, draw)
      el == Len(e.elems) + 1
      node == Len(e.nodes) + 1
      e1 == [e EXCEPT !.nodes = Append(@, NewNode(name)),
                      !.elems = Append(@, [uid |-> uid, name |-> "default-element",
                                           sourceId |-> "default", useShadow |-> FALSE,
                                           node |-> node, root |-> node])]
      e2 == DynelRegisterInstance(e1, uid, el)
      e3 == [e2 EXCEPT !.elems[el].name = name,
                       !.elems[el].sourceId = IF sourceId = NoName THEN name ELSE sourceId,
                       !.elems[el].useShadow = useShadow]
  IN IF useShadow
       THEN [AttachShadow(e3) EXCEPT !.elems[el].root = Len(e3.nodes) + 1]
       ELSE e3

\* Dynel.getElem(uid); 0 stands for undefined
DynelGetElem(e, uid) ==
  IF uid \in DOMAIN e.dynelInstanceMap THEN e.dynelInstanceMap[uid] ELSE 0

\* Dynel.configure(options): an option is taken when it is truthy
DynelConfigure(e, options) ==
  [e EXCEPT !.config.baseUrl = IF Truthy(options.baseUrl) THEN options.baseUrl.s ELSE @,
            !.config.extension = IF Truthy(options.extension) THEN options.extension.s ELSE @,
            !.config.propPrefix = IF Truthy(options.propPrefix) THEN options.propPrefix.s ELSE @]

\* Dynel.key(uid, name)
KeyNameOnly(uid, name) == name \o "."

Key(uid, name) == name \o "." \o uid

\* element.setAttribute(name, value) on the element el
SetAttribute(e, el, name, value) ==
  [e EXCEPT !.nodes[e.elems[el].node].attrs =
      WithAttribute(e.nodes[e.elems[el].node].attrs, name, value)]

\* Dynel.setProp(uid, propName, newValue)
\* Dynel.getElem(uid)?.setAttribute(propPrefix + propName, String(newValue))
ReflectProp(e, uid, propName, newValue) ==
  IF e.exc \/ DynelGetElem(e, uid) = 0 THEN e
  ELSE SetAttribute(e, DynelGetElem(e, uid), e.config.propPrefix \o propName,
                    JsString(newValue).s)

DynelSetProp(e, uid, propName, newValue) ==
  ReflectProp(StateSet(e, Key(uid, propName), newValue), uid, propName, newValue)

\* Dynel.getProp(uid, propName)
DynelGetProp(e, uid, propName) == StateGet(e, Key(uid, propName))

\* Dynel.onProp(uid, propName, cb)
DynelOnProp(e, uid, propName, cb) == StateSubscribe(e, Key(uid, propName), cb)

\* Dynel.setState(uid, stateName, newValue)
DynelSetState(e, uid, stateName, newValue) == StateSet(e, Key(uid, stateName), newValue)

\* Dynel.getState(uid, stateName)
DynelGetState(e, uid, stateName) == StateGet(e, Key(uid, stateName))

\* Dynel.onState(uid, stateName, cb)
DynelOnState(e, uid, stateName, cb) == StateSubscribe(e, Key(uid, stateName), cb)

\* Dynel.listen(type, cb)
DynelListen(e, type, cb) == EventAddListener(e, type, cb)

\* Dynel.dispatch(type, payload)
DynelDispatch(e, type, payload) == EventTrigger(e, type, payload)

\* Dynel.ref(uid, refName): Dynel.getElem(uid)?.querySelector(...) ?? undefined,
\* the result left in ret, 0 standing for undefined
DynelRef(e, uid, refName) ==
  [e EXCEPT !.ret = IF DynelGetElem(e, uid) = 0 THEN 0
                    ELSE QuerySelectorRef(e.nodes, e.elems[DynelGetElem(e, uid)].node, refName)]

\* a reference to the element el, as a value
ElemVal(el) == [t |-> "element", v |-> el, s |-> ""]

\* containerNode.cloneNode(true)
\* the copy's reference is left in ret
CloneNodeSame(e, src) == [e EXCEPT !.ret = src]

CloneNode(e, src) == [e EXCEPT !.nodes = CloneInto(e.nodes, src, 0), !.ret = Len(e.nodes) + 1]

\* a variant of slotDump that is not the code's: no child of the root is taken
SlotDumpNone(ns, kids) == [nm \in {} |-> 0]

\* slotDump after the loop over this.root.children: slot name -> element, the
\* last child of a name winning
SlotDump(ns, kids) ==
  LET nameOf(k) == GetAttributeOr(ns[k], "slot", "")
      last(nm) == CHOOSE i \in DOMAIN kids :
                    /\ nameOf(kids[i]) = nm
                    /\ \A j \in DOMAIN kids : nameOf(kids[j]) = nm => j <= i
  IN [nm \in {nameOf(kids[i]) : i \in DOMAIN kids} |-> kids[last(nm)]]

\* clone.querySelectorAll("slot").forEach(...)
RECURSIVE ReplaceSlots(_, _, _, _)
ReplaceSlots(e, slots, slotDump, i) ==
  IF i > Len(slots) \/ e.exc THEN e
  ELSE LET slotName == GetAttributeOr(e.nodes[slots[i]], "name", "")
       IN ReplaceSlots(IF slotName \in DOMAIN slotDump
                         THEN ReplaceWith(e, slots[i], slotDump[slotName])
                         ELSE e,
                       slots, slotDump, i + 1)

\* clone.querySelectorAll("script, style").forEach(...)
RECURSIVE RecreateScripts(_, _, _, _)
RecreateScripts(e, el, list, i) ==
  IF i > Len(list) \/ e.exc THEN e
  ELSE LET self == e.elems[el]
           elem == list[i]
           type == e.nodes[elem].tag
           text == IF type = "style"
                     THEN PrepareStyleText(e.nodes[elem].text, self.name, self.useShadow)
                     ELSE PrepareScriptText(e.nodes[elem].text, self.uid)
           temp == Len(e.nodes) + 1
           e1 == [e EXCEPT !.nodes = Append([e.nodes EXCEPT ![elem].text = text],
                                            [NewNode(type) EXCEPT !.text = text])]
       IN RecreateScripts(ReplaceWith(e1, elem, temp), el, list, i + 1)

\* Array.from(this.attributes).forEach(...): the prefixed attributes become props
RECURSIVE SeedProps(_, _, _, _)
SeedProps(e, el, attrs, i) ==
  IF i > Len(attrs) \/ e.exc THEN e
  ELSE SeedProps(IF StartsWith(attrs[i].name, e.config.propPrefix)
                   THEN DynelSetProp(e, e.elems[el].uid,
                                     ReplaceFirst(attrs[i].name, e.config.propPrefix, ""),
                                     StrV(attrs[i].value))
                   ELSE e,
                 el, attrs, i + 1)

\* assemble, its steps in the order of the code, last step first.  e.ret is
\* the clone all along.

\* the attribute loop
AssembleProps(e, el) == SeedProps(e, el, e.nodes[e.elems[el].node].attrs, 1)

\* this.root.replaceChildren(...Array.from(clone.children))
AssembleChildren(e, el) ==
  IF e.exc THEN e
  ELSE AssembleProps([e EXCEPT !.nodes = ReplaceChildren(e.nodes, e.elems[el].root,
                                                         e.nodes[e.ret].kids)], el)

\* the script and style loop
AssembleScripts(e, el) ==
  AssembleChildren(RecreateScripts(e, el, QuerySelectorAll(e.nodes, e.ret, {"script", "style"}), 1),
                   el)

\* this.root.replaceChildren()
AssembleClear(e, el) ==
  IF e.exc THEN e
  ELSE AssembleScripts([e EXCEPT !.nodes = ReplaceChildren(e.nodes, e.elems[el].root, <<>>)], el)

\* slotDump and the slot loop
AssembleSlots(e, el) ==
  AssembleClear(ReplaceSlots(e, QuerySelectorAll(e.nodes, e.ret, {"slot"}),
                             SlotDump(e.nodes, e.nodes[e.elems[el].root].kids), 1), el)

\* this.assemble(containerNode)
Assemble(e, el, containerNode) ==
  IF containerNode.t # "node" THEN [e EXCEPT !.exc = TRUE]
  ELSE AssembleSlots(CloneNode(e, containerNode.v), el)

\* Dynel.fetchCache.has(kind)
CacheHasReady(e, kind) ==
  kind \in DOMAIN e.fetchCache /\ Truthy(e.states[e.fetchCache[kind]].value)

CacheHas(e, kind) == kind \in DOMAIN e.fetchCache

\* Dynel.fetch(kind, onResult) up to its first await.  The function is async:
\* what it throws rejects the promise it returns and never reaches the caller.
DynelFetchStart(e, kind, onResult) ==
  [e EXCEPT !.fetchCache = Put(e.fetchCache, kind, Len(e.states)),
            !.requests = Append(@, [kind |-> kind, url |-> Url(e, kind),
                                    state |-> Len(e.states), onResult |-> onResult,
                                    phase |-> "pending", node |-> 0, text |-> <<>>])]

\* (a variant that is not the code's: a callback handed over for a kind that
\* has an entry is called at once, pending or not)
DynelFetchEager(e, kind, onResult) ==
  IF ~CacheHas(e, kind)
    THEN DynelFetchStart(StateNew(e, Undef, NoName), kind, onResult)
    ELSE [Invoke(e, onResult, StateGetInst(e, e.fetchCache[kind])) EXCEPT !.exc = FALSE]

DynelFetch(e, kind, onResult) ==
  IF ~CacheHas(e, kind)
    THEN DynelFetchStart(StateNew(e, Undef, NoName), kind, onResult)
    ELSE LET s == e.fetchCache[kind]
         IN IF ~Truthy(StateGetInst(e, s))
              THEN StateSubscribeInst(e, s, onResult)
              ELSE [Invoke(e, onResult, StateGetInst(e, s)) EXCEPT !.exc = FALSE]

\* state.set(containerNode), reached when onResult(containerNode) has returned
\* (first a variant that is not the code's: the fragment is never stored)
DynelFetchSetSkipped(e, s, containerNode) == e

DynelFetchSet(e, s, containerNode) ==
  IF e.exc THEN e ELSE StateSetInst(e, s, containerNode)

\* Dynel.fetch after its awaits: the response text has arrived; text is the
\* sequence of trees it parses to
DynelFetchResume(e, r, text) ==
  LET q == e.requests[r]
      node == Len(e.nodes) + 1
      containerNode == Node(node)
      e1 == [e EXCEPT !.nodes = AllocKids(Append(e.nodes, NewNode("div")), node, text, 1),
                      !.requests[r].phase = "settled",
                      !.requests[r].node = node,
                      !.requests[r].text = text]
  IN DynelFetchSet(Invoke(e1, q.onResult, containerNode), q.state, containerNode)

\* Dynel.dispatch("ready:" + this.name, this), reached when assemble has returned
DispatchReady(e, el) ==
  IF e.exc THEN e ELSE DynelDispatch(e, "ready:" \o e.elems[el].name, ElemVal(el))

\* this.connectedCallback(): the closure it hands over is a fresh callback
DynelConnectedCallback(e, el) ==
  LET e1 == NewCb(e, [Callback("connected") EXCEPT !.el = el, !.kind = e.elems[el].sourceId])
  IN DynelFetch(e1, e.elems[el].sourceId, Len(e1.cbs))

----------------------------------------------------------------------------
(* What a listener of a ready event looks at when it is called with the     *)
(* instance: the children of its root, the template its kind was requested  *)
(* with, if it has arrived, and Dynel.getProp(uid, name) for every          *)
(* attribute carrying the property prefix.                                  *)

RECURSIVE PropsSeen(_, _, _, _)
PropsSeen(e, uid, attrs, i) ==
  IF i > Len(attrs) THEN <<>>
  ELSE (IF StartsWith(attrs[i].name, e.config.propPrefix)
          THEN <<[name |-> attrs[i].name, value |-> attrs[i].value,
                  prop |-> DynelGetProp(e, uid, ReplaceFirst(attrs[i].name,
                                                             e.config.propPrefix, ""))]>>
          ELSE <<>>)
       \o PropsSeen(e, uid, attrs, i + 1)

Observe(e, arg) ==
  LET self == e.elems[arg.v]
      rs == {r \in DOMAIN e.requests :
               e.requests[r].kind = self.sourceId /\ e.requests[r].phase = "settled"}
  IN [arg |-> arg,
      kids |-> Snapshot(e.nodes, self.root).kids,
      available |-> rs # {},
      template |-> IF rs = {} THEN <<>> ELSE e.requests[CHOOSE r \in rs : TRUE].text,
      props |-> PropsSeen(e, self.uid, e.nodes[self.node].attrs, 1)]

----------------------------------------------------------------------------
(* The call cb(arg); depth counts the notifications the call is nested in *)

Invoke(e, cb, arg) ==
  LET c == e.cbs[cb]
      e1 == [e EXCEPT !.calls = Append(@, [cb |-> cb, arg |-> arg, depth |-> e.depth]),
                      !.cbs[cb].got = IF c.kind = "" THEN @ ELSE Append(@, arg)]
      in == [e1 EXCEPT !.depth = @ + 1]
      out(x) == [x EXCEPT !.depth = e.depth]
  IN CASE c.beh = "plain" -> e1
       [] c.beh = "throw" -> [e1 EXCEPT !.exc = TRUE]
       [] c.beh = "reset" ->
            IF arg = c.w THEN e1
            ELSE IF c.key = ""
              THEN out(StateSetInst(in, c.st, c.w))
              ELSE out(StateSet(in, c.key, c.w))
       [] c.beh = "refetch" ->
            out(DynelFetch(NewCb(in, [Callback("plain") EXCEPT !.kind = c.kind]),
                           c.kind, Len(e1.cbs) + 1))
       [] c.beh = "connected" ->
            out(DispatchReady(Assemble(in, c.el, arg), c.el))
       [] c.beh = "setprop" ->
            IF arg = c.w THEN e1 ELSE out(DynelSetProp(in, c.uid, c.name, c.w))
       [] c.beh = "probe" ->
            IF arg.t = "element"
              THEN [e1 EXCEPT !.cbs[cb].got = Append(c.got, Observe(e, arg))]
              ELSE e1

----------------------------------------------------------------------------
(* The turns *)

Op(name, kind) ==
  [name |-> name, kind |-> kind, uid |-> "", key |-> "", st |-> 0, val |-> Undef,
   threw |-> FALSE]

Init ==
  /\ now = 0
  /\ states = <<>>
  /\ stateInstanceMap = <<>>
  /\ cbs = <<>>
  /\ calls = <<>>
  /\ fetchCache = <<>>
  /\ requests = <<>>
  /\ config = [baseUrl |-> "/components/", extension |-> ".dynel.html",
               propPrefix |-> "prop-"]
  /\ elems = <<>>
  /\ nodes = <<>>
  /\ events = <<>>
  /\ eventInstanceMap = <<>>
  /\ dynelInstanceMap = <<>>
  /\ lastOp = Op("init", "")
  /\ turns = 0

\* time passes
Tick(max) ==
  /\ turns < max
  /\ now' = now + 1
  /\ lastOp' = Op("tick", "")
  /\ calls' = <<>>
  /\ turns' = turns + 1
  /\ UNCHANGED <<states, stateInstanceMap, cbs, fetchCache, requests, config,
                 elems, nodes, events, eventInstanceMap, dynelInstanceMap>>

\* a caller calls Dynel.fetch(kind, cb) with a callback of its own
Fetch(kind, beh) ==
  /\ LET e == NewCb(Env, [Callback(beh) EXCEPT !.kind = kind])
     IN Commit(DynelFetch(e, kind, Len(e.cbs)), Op("fetch", kind), MaxTurnsFetch)

\* the external fetch of request r and the reading of its text succeed
FetchComplete(r) ==
  /\ requests[r].phase = "pending"
  /\ Commit(DynelFetchResume(Env, r, <<>>), Op("complete", requests[r].kind), MaxTurnsFetch)

\* the external fetch of request r, or the reading of its text, fails: the
\* await throws inside Dynel.fetch and nothing after it runs
FetchFail(r) ==
  /\ requests[r].phase = "pending"
  /\ Commit([Env EXCEPT !.requests[r].phase = "failed", !.exc = TRUE],
            Op("fail", requests[r].kind), MaxTurnsFetch)

NextFetch ==
  \/ Tick(MaxTurnsFetch)
  \/ \E kind \in Kinds, beh \in {"plain", "throw", "refetch"} : Fetch(kind, beh)
  \/ \E r \in DOMAIN requests : FetchComplete(r)
  \/ \E r \in DOMAIN requests : FetchFail(r)

SpecFetch == Init /\ [][NextFetch]_vars

----------------------------------------------------------------------------
(* The turns of the State class used on its own *)

Vals == {Num(1), Num(2)}
ResetVal == Num(0)
Names == {"k"}

\* new State(initialValue, name), name left out when it is NoName
NewState(initialValue, name) ==
  /\ Commit(StateNew(Env, initialValue, name),
            [Op("new", "") EXCEPT !.key = name, !.st = Len(states) + 1,
                                  !.val = initialValue], MaxTurnsState)

\* s.subscribe(cb) with a callback of behaviour beh
Subscribe(s, beh) ==
  /\ LET e == NewCb(Env, [Callback(beh) EXCEPT !.st = s, !.w = ResetVal])
     IN Commit(StateSubscribeInst(e, s, Len(e.cbs)), [Op("subscribe", "") EXCEPT !.st = s], MaxTurnsState)

\* s.set(v)
SetInst(s, v) ==
  /\ Commit(StateSetInst(Env, s, v), [Op("set", "") EXCEPT !.st = s, !.val = v], MaxTurnsState)

\* State.subscribe(name, cb)
StaticSubscribe(name) ==
  /\ LET e == NewCb(Env, [Callback("plain") EXCEPT !.key = name])
     IN Commit(StateSubscribe(e, name, Len(e.cbs)), [Op("State.subscribe", "") EXCEPT !.key = name], MaxTurnsState)

\* State.set(name, v)
StaticSet(name, v) ==
  /\ Commit(StateSet(Env, name, v), [Op("State.set", "") EXCEPT !.key = name, !.val = v], MaxTurnsState)

Behs == {"plain", "throw", "reset"}

NextState ==
  \/ Tick(MaxTurnsState)
  \/ \E v \in {Undef, Num(1)}, name \in Names \cup {NoName} : NewState(v, name)
  \/ \E s \in DOMAIN states, beh \in Behs : Subscribe(s, beh)
  \/ \E s \in DOMAIN states, v \in Vals : SetInst(s, v)
  \/ \E name \in Names : StaticSubscribe(name)
  \/ \E name \in Names, v \in Vals : StaticSet(name, v)

SpecState == Init /\ [][NextState]_vars

----------------------------------------------------------------------------
(* The turns of the property and state interface of Dynel *)

PropNames == {"count", "n"}
Tags == {"a-el"}

\* document.createElement(name) of a defined element
Construct(name, draw) ==
  /\ Commit(DynelNew(Env, name, NoName, FALSE, draw), Op("construct", name), MaxTurnsProps)

Uids == DOMAIN dynelInstanceMap

SetProp(uid, name, v) ==
  /\ Commit(DynelSetProp(Env, uid, name, v),
            [Op("setProp", "") EXCEPT !.uid = uid, !.key = name, !.val = v], MaxTurnsProps)

SetState(uid, name, v) ==
  /\ Commit(DynelSetState(Env, uid, name, v),
            [Op("setState", "") EXCEPT !.uid = uid, !.key = name, !.val = v], MaxTurnsProps)

OnProp(uid, name, beh) ==
  /\ LET e == NewCb(Env, [Callback(beh) EXCEPT !.uid = uid, !.name = name])
     IN Commit(DynelOnProp(e, uid, name, Len(e.cbs)),
               [Op("onProp", "") EXCEPT !.uid = uid, !.key = name], MaxTurnsProps)

OnState(uid, name, beh) ==
  /\ LET e == NewCb(Env, [Callback(beh) EXCEPT !.uid = uid, !.name = name])
     IN Commit(DynelOnState(e, uid, name, Len(e.cbs)),
               [Op("onState", "") EXCEPT !.uid = uid, !.key = name], MaxTurnsProps)

NextProps ==
  \/ Tick(MaxTurnsProps)
  \/ \E name \in Tags, draw \in Draws : Construct(name, draw)
  \/ \E uid \in Uids, name \in PropNames, v \in Vals : SetProp(uid, name, v)
  \/ \E uid \in Uids, name \in PropNames, v \in Vals : SetState(uid, name, v)
  \/ \E uid \in Uids, name \in PropNames, beh \in {"plain", "throw"} : OnProp(uid, name, beh)
  \/ \E uid \in Uids, name \in PropNames, beh \in {"plain", "throw"} : OnState(uid, name, beh)

SpecProps == Init /\ [][NextProps]_vars

----------------------------------------------------------------------------
(* The turns of attachment and assembly *)

MaxTurnsDom == 5

\* template texts, given as the trees they parse to
Elem(tag, attrs, text, kids) == [tag |-> tag, attrs |-> attrs, text |-> text, kids |-> kids]
Attr(name, value) == [name |-> name, value |-> value]
SlotT(name, kids) ==
  Elem("slot", IF name = NoName THEN <<>> ELSE <<Attr("name", name)>>, "", kids)
ScriptT == Elem("script", <<>>, "$prop( \"n\" ); $onState (\"a-b\", f)", <<>>)
StyleT == Elem("style", <<>>, "[ref = \"r\"] self", <<>>)
Trees ==
  {SlotT(NoName, <<>>), SlotT("footer", <<SlotT(NoName, <<>>)>>), ScriptT,
   Elem("div", <<Attr("ref", "r")>>, "", <<StyleT, SlotT("footer", <<>>)>>)}
Templates == {<<>>} \cup {<<t>> : t \in Trees} \cup {<<t, u>> : t, u \in Trees}

SlotAttrs == {NoName, "footer"}

\* document.createElement("a-el") of an element defined with or without a shadow root
ConstructDom(useShadow, draw) ==
  /\ Commit(DynelNew(Env, "a-el", NoName, useShadow, draw), Op("construct", "a-el"), MaxTurnsDom)

\* el.appendChild(span), the span with the attribute slot unless slot is NoName
AppendChild(el, slot) ==
  /\ LET node == elems[el].node
         span == [NewNode("span") EXCEPT
                    !.attrs = IF slot = NoName THEN <<>> ELSE <<Attr("slot", slot)>>,
                    !.parent = node]
     IN Commit([Env EXCEPT !.nodes = Append([nodes EXCEPT ![node].kids = Append(@, Len(nodes) + 1)],
                                            span)],
               [Op("appendChild", "") EXCEPT !.st = el], MaxTurnsDom)

\* the element el is connected to the document
Attach(el) ==
  /\ Commit(DynelConnectedCallback(Env, el), [Op("attach", elems[el].sourceId) EXCEPT !.st = el],
            MaxTurnsDom)

\* the external fetch of request r succeeds with the text of a template
FetchCompleteDom(r, text) ==
  /\ requests[r].phase = "pending"
  /\ Commit(DynelFetchResume(Env, r, text), Op("complete", requests[r].kind), MaxTurnsDom)

NextDom ==
  \/ \E useShadow \in BOOLEAN : ConstructDom(useShadow, 0)
  \/ \E el \in DOMAIN elems, slot \in SlotAttrs : AppendChild(el, slot)
  \/ \E el \in DOMAIN elems : Attach(el)
  \/ \E r \in DOMAIN requests, text \in Templates : FetchCompleteDom(r, text)

SpecDom == Init /\ [][NextDom]_vars

----------------------------------------------------------------------------
(* The turns of an instance's way to its ready event, and of ref *)

MaxTurnsReady == 5

Sources == {NoName, "tpl"}
RefT == Elem("div", <<Attr("ref", "r")>>, "", <<>>)
ReadyTemplates == {<<>>, <<RefT>>, <<ScriptT, RefT>>}
ReadyTypes == {"ready:a-el", "ready:tpl"}
RefNames == {"r"}

\* Dynel.define("a-el", sourceId, useShadow), sourceId left out when it is
\* NoName, and document.createElement("a-el"); the random draws are taken
\* distinct, so that no two instances of a run share a uid
ConstructReady(sourceId, useShadow) ==
  /\ Commit(DynelNew(Env, "a-el", sourceId, useShadow, Len(elems)),
            [Op("construct", "a-el") EXCEPT !.key = sourceId], MaxTurnsReady)

\* el.setAttribute(name, value), as the document's markup or a script does
SetAttr(el, name, value) ==
  /\ Commit(SetAttribute(Env, el, name, value),
            [Op("setAttribute", "") EXCEPT !.st = el, !.key = name, !.val = StrV(value)],
            MaxTurnsReady)

\* el.appendChild(div), the div with the attribute ref
AppendRef(el, refName) ==
  /\ LET node == elems[el].node
         div == [NewNode("div") EXCEPT !.attrs = <<Attr("ref", refName)>>, !.parent = node]
     IN Commit([Env EXCEPT !.nodes = Append([nodes EXCEPT ![node].kids = Append(@, Len(nodes) + 1)],
                                            div)],
               [Op("appendChild", "") EXCEPT !.st = el], MaxTurnsReady)

\* Dynel.listen(type, cb) with a listener that looks at the instance it is given
Listen(type) ==
  /\ LET e == NewCb(Env, [Callback("probe") EXCEPT !.name = type])
     IN Commit(DynelListen(e, type, Len(e.cbs)), [Op("listen", "") EXCEPT !.key = type],
               MaxTurnsReady)

AttachReady(el) ==
  /\ Commit(DynelConnectedCallback(Env, el), [Op("attach", elems[el].sourceId) EXCEPT !.st = el],
            MaxTurnsReady)

FetchCompleteReady(r, text) ==
  /\ requests[r].phase = "pending"
  /\ Commit(DynelFetchResume(Env, r, text), Op("complete", requests[r].kind), MaxTurnsReady)

\* Dynel.ref(uid, refName); the turn records what it returned
Ref(uid, refName) ==
  /\ LET e == DynelRef(Env, uid, refName)
     IN Commit(e, [Op("ref", "") EXCEPT !.uid = uid, !.key = refName,
                                        !.val = IF e.ret = 0 THEN Undef ELSE Node(e.ret)],
               MaxTurnsReady)

NextReady ==
  \/ \E sourceId \in Sources, useShadow \in BOOLEAN : ConstructReady(sourceId, useShadow)
  \/ \E el \in DOMAIN elems : SetAttr(el, "prop-n", "7")
  \/ \E el \in DOMAIN elems, refName \in RefNames : AppendRef(el, refName)
  \/ \E type \in ReadyTypes : Listen(type)
  \/ \E el \in DOMAIN elems : AttachReady(el)
  \/ \E r \in DOMAIN requests, text \in ReadyTemplates : FetchCompleteReady(r, text)
  \/ \E uid \in Uids \cup {"none"}, refName \in RefNames : Ref(uid, refName)

SpecReady == Init /\ [][NextReady]_vars

----------------------------------------------------------------------------
(* The turns of properties and their attributes, with subscribers that set *)
(* the property they watch                                                  *)

MaxTurnsSync == 5

ConstructSync ==
  /\ Commit(DynelNew(Env, "a-el", NoName, FALSE, Len(elems)), Op("construct", "a-el"),
            MaxTurnsSync)

SetPropSync(uid, name, v) ==
  /\ Commit(DynelSetProp(Env, uid, name, v),
            [Op("setProp", "") EXCEPT !.uid = uid, !.key = name, !.val = v], MaxTurnsSync)

SetStateSync(uid, name, v) ==
  /\ Commit(DynelSetState(Env, uid, name, v),
            [Op("setState", "") EXCEPT !.uid = uid, !.key = name, !.val = v], MaxTurnsSync)

\* Dynel.onProp(uid, name, cb), cb plain or calling Dynel.setProp(uid, name, ResetVal)
OnPropSync(uid, name, beh) ==
  /\ LET e == NewCb(Env, [Callback(beh) EXCEPT !.uid = uid, !.name = name, !.w = ResetVal])
     IN Commit(DynelOnProp(e, uid, name, Len(e.cbs)),
               [Op("onProp", "") EXCEPT !.uid = uid, !.key = name], MaxTurnsSync)

NextSync ==
  \/ ConstructSync
  \/ \E uid \in Uids, name \in PropNames, v \in Vals : SetPropSync(uid, name, v)
  \/ \E uid \in Uids, name \in PropNames, v \in Vals : SetStateSync(uid, name, v)
  \/ \E uid \in Uids, name \in PropNames, beh \in {"plain", "setprop"} : OnPropSync(uid, name, beh)

SpecSync == Init /\ [][NextSync]_vars

----------------------------------------------------------------------------
(* The turns of the Event class used on its own *)

MaxTurnsEvent == 5

EventNames == {"e", "f"}

\* Event.addListener(name, cb) with a listener of behaviour beh
AddListener(name, beh) ==
  /\ LET e == NewCb(Env, [Callback(beh) EXCEPT !.name = name])
     IN Commit(EventAddListener(e, name, Len(e.cbs)), [Op("addListener", "") EXCEPT !.key = name],
               MaxTurnsEvent)

\* Event.trigger(name, payload)
Trigger(name, payload) ==
  /\ Commit(EventTrigger(Env, name, payload),
            [Op("trigger", "") EXCEPT !.key = name, !.val = payload], MaxTurnsEvent)

NextEvent ==
  \/ \E name \in EventNames, beh \in {"plain", "throw"} : AddListener(name, beh)
  \/ \E name \in EventNames, payload \in Vals : Trigger(name, payload)

SpecEvent == Init /\ [][NextEvent]_vars

----------------------------------------------------------------------------
(* The turns of the template cache under configure and under writes by name *)

MaxTurnsCache == 5

\* what configure may be given for baseUrl and for extension; NoName stands
\* for an option left out
BaseUrls == {NoName, "", "/c/"}
Extensions == {NoName, "", ".tmpl"}
Option(x) == IF x = NoName THEN Undef ELSE StrV(x)

\* the names String(Date.now()) can give within a run
Stamps == {"0", "1"}

\* Dynel.configure({ baseUrl, extension })
Configure(baseUrl, extension) ==
  /\ Commit(DynelConfigure(Env, [baseUrl |-> Option(baseUrl), extension |-> Option(extension),
                                 propPrefix |-> Undef]),
            [Op("configure", extension) EXCEPT !.key = baseUrl], MaxTurnsCache)

\* Dynel.fetch(kind, cb) with a plain callback
FetchCache(kind) ==
  /\ LET e == NewCb(Env, [Callback("plain") EXCEPT !.kind = kind])
     IN Commit(DynelFetch(e, kind, Len(e.cbs)), Op("fetch", kind), MaxTurnsCache)

FetchCompleteCache(r) ==
  /\ requests[r].phase = "pending"
  /\ Commit(DynelFetchResume(Env, r, <<>>), Op("complete", requests[r].kind), MaxTurnsCache)

\* State.set(name, v) with a name that is a time stamp
SetStamp(name, v) ==
  /\ Commit(StateSet(Env, name, v), [Op("State.set", "") EXCEPT !.key = name, !.val = v],
            MaxTurnsCache)

NextCache ==
  \/ Tick(MaxTurnsCache)
  \/ \E baseUrl \in BaseUrls, extension \in Extensions : Configure(baseUrl, extension)
  \/ \E kind \in Kinds : FetchCache(kind)
  \/ \E r \in DOMAIN requests : FetchCompleteCache(r)
  \/ \E name \in Stamps, v \in Vals : SetStamp(name, v)

SpecCache == Init /\ [][NextCache]_vars

----------------------------------------------------------------------------
(* The turns of prepareScript on script texts *)

MaxTurnsScript == 2

\* pieces of script text: calls of the rewritten functions in several
\* spellings, a call with a name that is no literal, a call of another
\* function, and text with no call
Pieces ==
  {"$prop(\"n\")", "$prop (\"n\")", "$state( \"a-b\" , 1)", "$ref(\"r\").x",
   "$onProp(\"n\", f)", "$onState (\"a-b\", f)", "$prop(n)", "$dispatch(\"e\")", "x = 1"}
ScriptTexts == {p \o "; " \o q : p, q \in Pieces}
ScriptUids == {"0", "17"}

\* this.prepareScript(elem) on a script of the given text, in an instance of
\* the given uid; the turn records the text it leaves
PrepareScript(text, uid) ==
  /\ Commit(Env, [Op("prepareScript", PrepareScriptText(text, uid)) EXCEPT
                    !.key = text, !.uid = uid], MaxTurnsScript)

NextScript == \E text \in ScriptTexts, uid \in ScriptUids : PrepareScript(text, uid)

SpecScript == Init /\ [][NextScript]_vars

----------------------------------------------------------------------------
(* The turns of attachment when every fetch succeeds in the end and no      *)
(* callback throws.  A fetch completion is not counted against the bound of *)
(* the other turns, so that it stays possible as long as a fetch is pending. *)

MaxTurnsLive == 6

LiveKinds == {"a-el", "tpl"}
LiveTemplates == {<<>>, <<RefT>>}

ConstructLive(sourceId) ==
  /\ Commit(DynelNew(Env, "a-el", sourceId, FALSE, Len(elems)),
            [Op("construct", "a-el") EXCEPT !.key = sourceId], MaxTurnsLive)

ListenLive ==
  /\ LET e == NewCb(Env, [Callback("probe") EXCEPT !.name = "ready:a-el"])
     IN Commit(DynelListen(e, "ready:a-el", Len(e.cbs)),
               [Op("listen", "") EXCEPT !.key = "ready:a-el"], MaxTurnsLive)

AttachLive(el) ==
  /\ Commit(DynelConnectedCallback(Env, el), [Op("attach", elems[el].sourceId) EXCEPT !.st = el],
            MaxTurnsLive)

FetchCompleteLive(r, text) ==
  /\ requests[r].phase = "pending"
  /\ Commit(DynelFetchResume(Env, r, text), Op("complete", requests[r].kind),
            MaxTurnsLive + Cardinality(LiveKinds))

NextLive ==
  \/ \E sourceId \in LiveKinds : ConstructLive(sourceId)
  \/ ListenLive
  \/ \E el \in DOMAIN elems : AttachLive(el)
  \/ \E r \in DOMAIN requests, text \in LiveTemplates : FetchCompleteLive(r, text)

\* the steps that complete a pending fetch, told by what they leave in turns
\* and lastOp
CompletionStep ==
  \E r \in DOMAIN requests :
    /\ requests[r].phase = "pending"
    /\ turns < MaxTurnsLive + Cardinality(LiveKinds)
    /\ turns' = turns + 1
    /\ lastOp' \in {[Op("complete", requests[r].kind) EXCEPT !.threw = b] : b \in BOOLEAN}

\* every pending fetch completes in the end
SpecLive ==
  /\ Init /\ [][NextLive]_vars
  /\ WF_<<turns, lastOp>>(CompletionStep)

----------------------------------------------------------------------------
(* The turns of an instance that is attached again and again, its           *)
(* properties written in between                                            *)

MaxTurnsCycle == 6

CycleTemplates == {<<>>, <<RefT>>, <<SlotT(NoName, <<>>), RefT>>}

ConstructCycle(sourceId) ==
  /\ Commit(DynelNew(Env, "a-el", sourceId, FALSE, Len(elems)),
            [Op("construct", "a-el") EXCEPT !.key = sourceId], MaxTurnsCycle)

\* el.setProp(name, v)
SetPropCycle(uid, name, v) ==
  /\ Commit(DynelSetProp(Env, uid, name, v),
            [Op("setProp", "") EXCEPT !.uid = uid, !.key = name, !.val = v], MaxTurnsCycle)

ListenCycle ==
  /\ LET e == NewCb(Env, [Callback("probe") EXCEPT !.name = "ready:a-el"])
     IN Commit(DynelListen(e, "ready:a-el", Len(e.cbs)),
               [Op("listen", "") EXCEPT !.key = "ready:a-el"], MaxTurnsCycle)

\* the element el is connected to the document, for the first time or again
AttachCycle(el) ==
  /\ Commit(DynelConnectedCallback(Env, el), [Op("attach", elems[el].sourceId) EXCEPT !.st = el],
            MaxTurnsCycle)

FetchCompleteCycle(r, text) ==
  /\ requests[r].phase = "pending"
  /\ Commit(DynelFetchResume(Env, r, text), Op("complete", requests[r].kind), MaxTurnsCycle)

NextCycle ==
  \/ \E sourceId \in LiveKinds : ConstructCycle(sourceId)
  \/ \E uid \in Uids, v \in Vals : SetPropCycle(uid, "n", v)
  \/ ListenCycle
  \/ \E el \in DOMAIN elems : AttachCycle(el)
  \/ \E r \in DOMAIN requests, text \in CycleTemplates : FetchCompleteCycle(r, text)

SpecCycle == Init /\ [][NextCycle]_vars

----------------------------------------------------------------------------
(* What the claims speak of *)

\* the external fetches issued for a kind
RequestsOf(kind) == {r \in DOMAIN requests : requests[r].kind = kind}

\* the callbacks handed to Dynel.fetch(kind, _), reentrant callers included
Requesters(kind) == {cb \in DOMAIN cbs : cbs[cb].kind = kind}

\* what a callback handed to Dynel.fetch has been called with, in order
CallsOf(cb) == cbs[cb].got

Fragment(r) == Node(requests[r].node)

Waiters(r) == states[requests[r].state].setCallbacks

----------------------------------------------------------------------------
(* C1: single-flight.  Whatever the interleaving of Dynel.fetch calls and   *)
(* fetch completions, at most one external fetch is ever issued per kind.   *)
C1_SingleFlight == \A kind \in Kinds : Cardinality(RequestsOf(kind)) <= 1

\* a kind whose fetch has completed, with a requester that waited for it, and
\* one more Dynel.fetch call for it made after the completion
C1_Witness ==
  \E r \in DOMAIN requests :
    /\ requests[r].phase = "settled"
    /\ Len(Waiters(r)) >= 1
    /\ lastOp.name = "fetch" /\ lastOp.kind = requests[r].kind
    /\ Cardinality(Requesters(requests[r].kind)) >= 3

(* C2: once the single fetch of a kind has completed, every callback handed *)
(* to Dynel.fetch for that kind has been invoked exactly once, and each got *)
(* the same fragment object.                                                *)
C2_EachOnce ==
  \A r \in DOMAIN requests :
    requests[r].phase = "settled" =>
      \A cb \in Requesters(requests[r].kind) :
        /\ Len(CallsOf(cb)) = 1
        /\ CallsOf(cb)[1] = Fragment(r)

(* C8: when a requester's callback has thrown while it was run on fetch     *)
(* completion, the kind is ready all the same, every requester queued while *)
(* it was pending has been invoked with the fragment, and a requester that  *)
(* comes later is served at once.                                           *)
C8_ThrowIsolated ==
  \A r \in DOMAIN requests :
    (/\ requests[r].phase = "settled"
     /\ \E cb \in Requesters(requests[r].kind) :
          cbs[cb].beh = "throw" /\ Len(CallsOf(cb)) > 0)
    => /\ Truthy(states[requests[r].state].value)
       /\ \A cb \in Range(Waiters(r)) : Len(CallsOf(cb)) = 1
       /\ \A cb \in Requesters(requests[r].kind) :
            \E i \in DOMAIN CallsOf(cb) : CallsOf(cb)[i] = Fragment(r)


----------------------------------------------------------------------------
\* the invocations the last turn's own call made, those of nested calls left out
OuterCalls ==
  LET own == SelectSeq(calls, LAMBDA c : c.depth = 0)
  IN [i \in DOMAIN own |-> [cb |-> own[i].cb, arg |-> own[i].arg]]

(* C3: a call s.set(v) made from outside any notification invokes the      *)
(* subscribers registered on s, each exactly once, in the order they were   *)
(* registered, each with v.                                                 *)
C3_RegistrationOrder ==
  [][lastOp'.name = "set" =>
       LET subs == states[lastOp'.st].setCallbacks
       IN OuterCalls' = [i \in DOMAIN subs |-> [cb |-> subs[i], arg |-> lastOp'.val]]]_vars

(* C4: once a name maps to a container in the registry, no operation makes  *)
(* it map to another container.                                             *)
C4_KeyKeepsContainer ==
  [][\A k \in DOMAIN stateInstanceMap :
       k \in DOMAIN stateInstanceMap' /\ stateInstanceMap'[k] = stateInstanceMap[k]]_vars

(* C5: a callback handed to onProp(uid, name, cb) or onState(uid, name, cb), *)
(* also before the property or state was ever set, is invoked by every      *)
(* later setProp / setState of that name for that instance.                 *)
C5_SubscribedBeforeSet ==
  [][lastOp'.name \in {"setProp", "setState"} =>
       \A cb \in DOMAIN cbs :
         (cbs[cb].uid = lastOp'.uid /\ cbs[cb].name = lastOp'.key)
           => \E i \in DOMAIN calls' : calls'[i].cb = cb]_vars

(* C6: a setState or setProp on the instance u1 leaves getState(u2, n) and  *)
(* getProp(u2, n) as they were for every other instance id u2 and invokes   *)
(* no callback subscribed through onState / onProp for u2.                  *)
C6_NamespaceIsolation ==
  [][lastOp'.name \in {"setProp", "setState"} =>
       \A u2 \in Uids \ {lastOp'.uid} :
         /\ \A n \in PropNames :
              /\ DynelGetState(Env, u2, n)' = DynelGetState(Env, u2, n)
              /\ DynelGetProp(Env, u2, n)' = DynelGetProp(Env, u2, n)
         /\ \A i \in DOMAIN calls' : cbs[calls'[i].cb].uid # u2]_vars

\* an instance with a value and a subscriber, and a setState on another
\* instance that has just stored a different value under the same name
C6_Witness ==
  /\ lastOp.name = "setState"
  /\ \E u2 \in Uids \ {lastOp.uid} :
       LET k == Key(u2, lastOp.key)
       IN /\ k \in DOMAIN stateInstanceMap
          /\ states[stateInstanceMap[k]].setCallbacks # <<>>
          /\ DynelGetState(Env, u2, lastOp.key) # Undef
          /\ DynelGetState(Env, lastOp.uid, lastOp.key) = lastOp.val
          /\ DynelGetState(Env, u2, lastOp.key) # lastOp.val

(* C7: no two instances constructed in one run get the same uid, so no     *)
(* entry of the instance map is overwritten.                                *)
C7_UidsDistinct ==
  /\ \A i, j \in DOMAIN elems : i # j => elems[i].uid # elems[j].uid
  /\ Cardinality(DOMAIN dynelInstanceMap) = Len(elems)

----------------------------------------------------------------------------
\* the nodes of the tree below a node, itself included
Subtree(ns, id) == {id} \cup Range(Descendants(ns, id))

\* the children of a node, as values
KidsOf(ns, id) == Snapshot(ns, id).kids

\* the elements whose assembly has run: their connectedCallback closure was called
Assembled == {cbs[calls[i].cb].el : i \in {j \in DOMAIN calls : cbs[calls[j].cb].beh = "connected"}}

AssembledEver ==
  {el \in DOMAIN elems : \E cb \in DOMAIN cbs : cbs[cb].el = el /\ cbs[cb].got # <<>>}

(* C9: the cached fragment of a kind is never changed by assembly.  Once    *)
(* the fetch of a request has completed, the tree below its container node  *)
(* is the tree that was stored at completion, and no node of it is in the   *)
(* tree of any instance: every instance worked on a copy of its own.        *)
C9_FragmentUntouched ==
  \A r \in DOMAIN requests :
    requests[r].phase = "settled" =>
      /\ KidsOf(nodes, requests[r].node) = requests[r].text
      /\ nodes[requests[r].node].parent = 0
      /\ \A el \in DOMAIN elems :
           Subtree(nodes, elems[el].node) \cap Subtree(nodes, requests[r].node) = {}
      /\ \A el \in DOMAIN elems :
           Subtree(nodes, elems[el].root) \cap Subtree(nodes, requests[r].node) = {}

\* the number of assemblies that have run from the fragment of request r
RECURSIVE SumGot(_)
SumGot(S) ==
  IF S = {} THEN 0
  ELSE LET cb == CHOOSE x \in S : TRUE IN Len(cbs[cb].got) + SumGot(S \ {cb})

Assemblies(r) ==
  SumGot({cb \in DOMAIN cbs : cbs[cb].beh = "connected" /\ cbs[cb].kind = requests[r].kind})

\* a fragment with a placeholder and a script from which two assemblies have
\* run, the last one leaving a projected child in the place of the placeholder
\* and a rewritten script in the instance
C9_Witness ==
  \E r \in DOMAIN requests :
    /\ requests[r].phase = "settled"
    /\ \E i, j \in DOMAIN requests[r].text :
         requests[r].text[i].tag = "slot" /\ requests[r].text[j].tag = "script"
    /\ Assemblies(r) >= 2
    /\ \E el \in Assembled :
         /\ \E k \in Range(nodes[elems[el].root].kids) : nodes[k].tag = "span"
         /\ \E k \in Range(nodes[elems[el].root].kids) :
              nodes[k].tag = "script" /\ nodes[k].text # ScriptT.text

----------------------------------------------------------------------------
\* the name a placeholder declares, the slot name a projected child declares
SlotName(t) == GetAttributeOr(t, "name", "")
SlotOf(c) == GetAttributeOr(c, "slot", "")

\* whether the placeholder t has a projected child of its name among cs
Matched(t, cs) == t.tag = "slot" /\ \E c \in Range(cs) : SlotOf(c) = SlotName(t)

\* the trees a and b are the same but for what the recreation of scripts and
\* styles changes: of a script or a style, only the tag is compared
RECURSIVE Same(_, _)
Same(a, b) ==
  /\ a.tag = b.tag
  /\ \/ a.tag \in {"script", "style"}
     \/ /\ a.attrs = b.attrs
        /\ a.text = b.text
        /\ Len(a.kids) = Len(b.kids)
        /\ \A i \in DOMAIN a.kids : Same(a.kids[i], b.kids[i])

\* what slot projection is said to make of the list T of template trees: R,
\* with the projected children cs
RECURSIVE Projected(_, _, _)
Projected(T, R, cs) ==
  /\ Len(R) = Len(T)
  /\ \A i \in DOMAIN T :
       IF Matched(T[i], cs)
         THEN \E c \in Range(cs) : SlotOf(c) = SlotName(T[i]) /\ Same(R[i], c)
         ELSE /\ R[i].tag = T[i].tag
              /\ \/ T[i].tag \in {"script", "style"}
                 \/ /\ R[i].attrs = T[i].attrs
                    /\ R[i].text = T[i].text
                    /\ Projected(T[i].kids, R[i].kids, cs)

\* the names of the placeholders of the trees T that have a projected child
RECURSIVE MatchedNames(_, _)
MatchedNames(T, cs) ==
  IF T = <<>> THEN <<>>
  ELSE (IF Matched(Head(T), cs) THEN <<SlotName(Head(T))>> ELSE <<>>)
         \o MatchedNames(Head(T).kids, cs) \o MatchedNames(Tail(T), cs)

NoDuplicates(seq) == \A i, j \in DOMAIN seq : i # j => seq[i] # seq[j]

\* the template an element is assembled from
TemplateOf(el) == requests[fetchCache[elems[el].sourceId]].text

\* the elements assembled once in the last turn
AssembledOnce ==
  {el \in Assembled :
     Cardinality({i \in DOMAIN calls : cbs[calls[i].cb].el = el}) = 1}

----------------------------------------------------------------------------
\* what assembly makes of the template trees T, none of them a placeholder,
\* for the instance el: R, with scripts and styles recreated from their
\* rewritten text
RECURSIVE Processed(_, _, _)
Processed(T, R, el) ==
  /\ Len(R) = Len(T)
  /\ \A i \in DOMAIN T :
       /\ R[i].tag = T[i].tag
       /\ CASE T[i].tag = "script" ->
                 R[i].text = PrepareScriptText(T[i].text, elems[el].uid)
              [] T[i].tag = "style" ->
                 R[i].text = PrepareStyleText(T[i].text, elems[el].name, elems[el].useShadow)
              [] OTHER ->
                 /\ R[i].attrs = T[i].attrs
                 /\ R[i].text = T[i].text
                 /\ Processed(T[i].kids, R[i].kids, el)

\* what the listeners of ready events have found, call by call
Seen ==
  UNION {{[type |-> cbs[cb].name, seen |-> o] : o \in Range(cbs[cb].got)} :
           cb \in {c \in DOMAIN cbs : cbs[c].beh = "probe"}}

(* C11: whenever a listener of "ready:" + kind has been invoked with the    *)
(* instance I, kind is the identifier I requested its template with, the    *)
(* template had arrived, I's root held the processed copy of it, and        *)
(* getProp(I.uid, n) was the value of every attribute prefix + n of I.      *)
C11_ReadyAfterAssembly ==
  \A x \in Seen :
    LET o == x.seen
        I == o.arg.v
    IN /\ x.type = "ready:" \o elems[I].sourceId
       /\ o.available
       /\ Processed(o.template, o.kids, I)
       /\ \A j \in DOMAIN o.props : o.props[j].prop = StrV(o.props[j].value)

----------------------------------------------------------------------------
\* the value of the last set call the last turn made: that of the last
\* subscriber which set a value of its own, or else the turn's own
LastWritten ==
  LET own == {i \in DOMAIN calls :
                /\ cbs[calls[i].cb].beh \in {"reset", "setprop"}
                /\ calls[i].arg # cbs[calls[i].cb].w}
  IN IF own = {} THEN lastOp.val
     ELSE cbs[calls[CHOOSE i \in own : \A j \in own : j <= i].cb].w

\* the attributes of the element registered under uid
AttrsOf(uid) == nodes[elems[dynelInstanceMap[uid]].node].attrs

\* the last turn was a setProp on a registered instance and has left the
\* property and its attribute at the last value written
SetPropInSync ==
  lastOp.name = "setProp" =>
    /\ DynelGetProp(Env, lastOp.uid, lastOp.key) = LastWritten
    /\ GetAttributeOr([attrs |-> AttrsOf(lastOp.uid)], config.propPrefix \o lastOp.key, NoName)
         = JsString(LastWritten).s

(* C12: after a setProp(uid, name, v) on a registered instance, getProp(uid, *)
(* name) is the last value written and the attribute prefix + name of the   *)
(* instance holds String of that value; a setState changes no attribute of  *)
(* any instance.                                                            *)
C12_PropAttributeSync ==
  [][/\ SetPropInSync'
     /\ lastOp'.name = "setState" =>
          \A el \in DOMAIN elems : nodes'[elems[el].node].attrs = nodes[elems[el].node].attrs]_vars

----------------------------------------------------------------------------
\* the listeners added under a name so far, in the order they were added
ListenersOf(name) == SelectSeq([i \in DOMAIN cbs |-> i], LAMBDA c : cbs[c].name = name)

(* C13: Event.trigger(name, payload) invokes every listener added under     *)
(* name so far, each once, in the order they were added, each with payload; *)
(* when no listener was ever added under name it invokes nothing, raises no *)
(* error and creates no channel; and adding a listener invokes nothing, so  *)
(* no listener is invoked for a trigger made before it was added.           *)
C13_TriggerInvokesAll ==
  [][/\ lastOp'.name = "trigger" =>
          LET ls == ListenersOf(lastOp'.key)
          IN /\ calls' = [i \in DOMAIN ls |-> [cb |-> ls[i], arg |-> lastOp'.val, depth |-> 0]]
             /\ ls = <<>> => /\ ~lastOp'.threw
                             /\ eventInstanceMap' = eventInstanceMap
                             /\ events' = events
     /\ lastOp'.name = "addListener" => calls' = <<>>]_vars

----------------------------------------------------------------------------
\* the first descendant of a node, in document order, whose ref attribute is
\* refName, as a value; Undef when there is none
FirstRef(id, refName) ==
  LET ds == Descendants(nodes, id)
      hits == {i \in DOMAIN ds : \E a \in Range(nodes[ds[i]].attrs) :
                                    a.name = "ref" /\ a.value = refName}
  IN IF hits = {} THEN Undef ELSE Node(ds[CHOOSE i \in hits : \A j \in hits : i <= j])

(* C14: Dynel.ref(uid, refName) returns the first descendant of the root of *)
(* the instance registered under uid whose ref attribute is refName, the    *)
(* root being the shadow root of an instance defined with one and the       *)
(* element otherwise; it returns undefined when there is no such descendant *)
(* or no instance under uid, and never throws.                              *)
C14_RefWithinRoot ==
  lastOp.name = "ref" =>
    /\ ~lastOp.threw
    /\ lastOp.val = IF lastOp.uid \in DOMAIN dynelInstanceMap
                      THEN FirstRef(elems[dynelInstanceMap[lastOp.uid]].root, lastOp.key)
                      ELSE Undef

----------------------------------------------------------------------------
\* the container the last turn's set call was made on
SetTurn == lastOp.name \in {"set", "State.set"}
SetOn == IF lastOp.name = "set" THEN lastOp.st ELSE stateInstanceMap[lastOp.key]

(* C15: get() on a container returns the value of the last set call made on *)
(* it, whatever its subscribers; a container never set returns the initial  *)
(* value it was constructed with, undefined when none was given.  Turn by   *)
(* turn: a turn that sets a container leaves it at the value of the last    *)
(* set call made in the turn, a new container holds its initial value, and  *)
(* no other turn changes what get() returns.                                *)
C15_GetReturnsLastSet ==
  [][\A s \in DOMAIN states' :
       StateGetInst(Env, s)' =
         IF SetTurn' /\ SetOn' = s THEN LastWritten'
         ELSE IF s \in DOMAIN states THEN StateGetInst(Env, s)
         ELSE lastOp'.val]_vars

\* a set on a container with two subscribers or more, one of which has set a
\* value of its own during the call: get() returns that value, not the call's
C15_Witness ==
  /\ lastOp.name = "set"
  /\ Len(states[lastOp.st].setCallbacks) >= 2
  /\ LastWritten # lastOp.val
  /\ StateGetInst(Env, lastOp.st) = LastWritten

----------------------------------------------------------------------------
\* whether the log, read from entry i on, is the depth-first run of a set call
\* at nesting depth d from the k-th subscriber on: every subscriber at depth
\* d, in order, the set call a subscriber makes run in full, one level deeper,
\* right after that subscriber's entry; a subscriber that throws ends the log.
\* next is the entry after the run.
RECURSIVE Walk(_, _, _, _, _)
Walk(log, subs, i, d, k) ==
  IF k > Len(subs) THEN [ok |-> TRUE, next |-> i, aborted |-> FALSE]
  ELSE IF i > Len(log) \/ log[i].cb # subs[k] \/ log[i].depth # d
    THEN [ok |-> FALSE, next |-> i, aborted |-> FALSE]
  ELSE IF cbs[log[i].cb].beh = "throw"
    THEN [ok |-> i = Len(log), next |-> i + 1, aborted |-> TRUE]
  ELSE IF cbs[log[i].cb].beh = "reset" /\ log[i].arg # cbs[log[i].cb].w
    THEN LET inner == Walk(log, subs, i + 1, d + 1, 1)
         IN IF ~inner.ok \/ inner.aborted THEN inner
            ELSE Walk(log, subs, inner.next, d, k + 1)
  ELSE Walk(log, subs, i + 1, d, k + 1)

(* C17: notification is depth-first.  The invocations a set call makes are  *)
(* those of its subscribers in order, and when a subscriber calls set on    *)
(* the container, all invocations of that inner call come right after the   *)
(* subscriber's own and before the outer call's next subscriber; every      *)
(* invocation is made in the turn of the set call, none in a later turn.    *)
C17_DepthFirst ==
  [][IF SetTurn'
       THEN LET w == Walk(calls', states'[SetOn'].setCallbacks, 1, 0, 1)
            IN w.ok /\ w.next = Len(calls') + 1
       ELSE calls' = <<>>]_vars

\* a set call whose first subscriber has called set, the inner call's
\* invocations made, and the outer call gone on to its next subscriber
C17_Witness ==
  /\ lastOp.name = "set" /\ ~lastOp.threw
  /\ \E i, j, k \in DOMAIN calls :
       /\ i < j /\ j < k
       /\ calls[i].depth = 0 /\ calls[j].depth = 1 /\ calls[k].depth = 0
       /\ calls[j].cb = calls[k].cb

(* C18: every subscriber invocation made by a call set(v) passes v, in      *)
(* every nesting: the invocations of the turn's own call pass its value,    *)
(* those of the calls subscribers make pass the value those calls gave.     *)
C18_PassesValueOfCall ==
  [][lastOp'.name = "set" =>
       \A i \in DOMAIN calls' :
         calls'[i].arg = IF calls'[i].depth = 0 THEN lastOp'.val ELSE ResetVal]_vars

(* C20: constructing a State without a name leaves the registry of named    *)
(* containers as it was: no key gains a container, no key's container       *)
(* changes.                                                                 *)
C20_UnnamedNotRegistered ==
  [][(lastOp'.name = "new" /\ lastOp'.key = NoName) =>
       stateInstanceMap' = stateInstanceMap]_vars

----------------------------------------------------------------------------
\* what the cache holds for a kind it has an entry for: undefined while the
\* kind is pending, the fragment once it is ready
Cached(kind) == states[fetchCache[kind]].value

(* C16: configure({baseUrl, extension}) makes every option it is given the  *)
(* configured value; a fetch of a kind with no cache entry issues one       *)
(* request, for baseUrl + kind + extension as configured when it is issued; *)
(* neither configure nor a fetch of a pending or ready kind issues a        *)
(* request, and both leave every cached fragment as it was.                 *)
C16_ConfigureAffectsLaterFetches ==
  [][/\ lastOp'.name = "configure" =>
          /\ config'.baseUrl = IF lastOp'.key = NoName THEN config.baseUrl ELSE lastOp'.key
          /\ config'.extension = IF lastOp'.kind = NoName THEN config.extension ELSE lastOp'.kind
          /\ requests' = requests
          /\ \A kind \in DOMAIN fetchCache : kind \in DOMAIN fetchCache' /\ Cached(kind)' = Cached(kind)
     /\ lastOp'.name = "fetch" =>
          /\ config' = config
          /\ \A kind \in DOMAIN fetchCache : kind \in DOMAIN fetchCache' /\ Cached(kind)' = Cached(kind)
          /\ IF lastOp'.kind \in DOMAIN fetchCache
               THEN requests' = requests
               ELSE /\ Len(requests') = Len(requests) + 1
                    /\ requests'[Len(requests')].url =
                         config.baseUrl \o lastOp'.kind \o config.extension]_vars

(* C19: the cache state of a kind only moves forward.  A kind with an entry *)
(* keeps it, a pending kind becomes ready only by its fetch completing,     *)
(* with the fragment, and a ready kind's fragment is never replaced,        *)
(* whatever the operation, writes by name included.                         *)
C19_CacheForwardOnly ==
  [][\A kind \in DOMAIN fetchCache :
       /\ kind \in DOMAIN fetchCache'
       /\ Truthy(Cached(kind)) => Cached(kind)' = Cached(kind)
       /\ (~Truthy(Cached(kind)) /\ Truthy(Cached(kind)'))
            => /\ lastOp'.name = "complete" /\ lastOp'.kind = kind
               /\ \E r \in RequestsOf(kind)' : Cached(kind)' = Node(requests'[r].node)]_vars

----------------------------------------------------------------------------
\* s without its white space
RECURSIVE StripSpaces(_, _)
StripSpaces(s, i) ==
  IF i > Len(s) THEN ""
  ELSE (IF At(s, i) \in SpaceChars THEN "" ELSE At(s, i)) \o StripSpaces(s, i + 1)

\* what the rewrite is said to make of a script text, from i on: at every
\* call of one of the five functions whose first argument is a quoted name,
\* the uid, quoted, is put in as the first argument, and nothing else changes
RECURSIVE Scoped(_, _, _)
Scoped(s, i, uid) ==
  IF i > Len(s) THEN ""
  ELSE LET fn == FnAt(s, i, <<"$prop", "$state", "$ref", "$onProp", "$onState">>, 1)
           p == Skip(s, i + Len(fn), SpaceChars)
           q == Skip(s, p + 1, SpaceChars)
       IN IF fn # "" /\ At(s, p) = "(" /\ QuotedNameEnd(s, q) # 0
            THEN SubSeq(s, i, p) \o "\"" \o uid \o "\"," \o SubSeq(s, p + 1, QuotedNameEnd(s, q) - 1)
                   \o Scoped(s, QuotedNameEnd(s, q), uid)
            ELSE At(s, i) \o Scoped(s, i + 1, uid)

(* C21: prepareScript leaves the script text with the instance's uid put in *)
(* as the first argument of every call of $prop, $state, $ref, $onProp or   *)
(* $onState whose first argument is a quoted name, each call rewritten      *)
(* once, and nothing else changed (white space set aside).                  *)
C21_ScriptCallsScoped ==
  lastOp.name = "prepareScript" =>
    StripSpaces(lastOp.kind, 1) = StripSpaces(Scoped(lastOp.key, 1, lastOp.uid), 1)

----------------------------------------------------------------------------
\* the attachments made so far: the closures connectedCallback has handed over
Attachments == {c \in DOMAIN cbs : cbs[c].beh = "connected"}

\* the attachment c has led to an assembly, and every listener of the ready
\* event that was there when the instance was attached has since been called
\* with the instance
ReadyEmitted(c) ==
  /\ cbs[c].got # <<>>
  /\ \A l \in DOMAIN cbs :
       (cbs[l].beh = "probe" /\ l < c)
         => \E o \in Range(cbs[l].got) : o.arg = ElemVal(cbs[c].el)

AllReady == \A c \in Attachments : ReadyEmitted(c)

\* an attachment made when the kind was ready has been assembled and has
\* emitted its ready event within the attach call
AttachServedAtOnce ==
  (/\ lastOp'.name = "attach"
   /\ lastOp'.kind \in DOMAIN fetchCache
   /\ Truthy(Cached(lastOp'.kind)))
  => (\A c \in Attachments' \ Attachments : ReadyEmitted(c)')

(* C22: when every external fetch completes in the end and no callback      *)
(* throws, every attachment, made while the kind was unrequested, pending   *)
(* or ready, leads in the end to an assembly and a ready event; and an      *)
(* attachment made once the kind is ready is served within the attach call. *)
C22_EveryAttachmentReady == [][AttachServedAtOnce]_vars /\ <>[]AllReady

\* a kind with an instance attached when it was unrequested, one attached
\* while it was pending and one attached, in the last turn, when it was
\* ready, all assembled, and a listener called with each of the instances
C22_Witness ==
  /\ lastOp.name = "attach"
  /\ \E r \in DOMAIN requests :
       /\ requests[r].kind = lastOp.kind
       /\ requests[r].phase = "settled"
       /\ Len(Waiters(r)) >= 1
  /\ Cardinality({c \in Attachments : cbs[c].kind = lastOp.kind}) >= 3
  /\ AllReady
  /\ \E l \in DOMAIN cbs : cbs[l].beh = "probe" /\ Len(cbs[l].got) >= 3

----------------------------------------------------------------------------
\* the kinds whose external fetch has failed are pending: they have their one
\* request and their cache entry, which holds no fragment, none of the
\* callbacks handed to Dynel.fetch for them has been called, and all of them
\* but the first requester's are queued
FailedPending ==
  \A r \in DOMAIN requests :
    requests[r].phase = "failed" =>
      LET kind == requests[r].kind
      IN /\ kind \in DOMAIN fetchCache
         /\ ~Truthy(Cached(kind))
         /\ RequestsOf(kind) = {r}
         /\ \A cb \in Requesters(kind) : CallsOf(cb) = <<>>
         /\ Range(Waiters(r)) = Requesters(kind) \ {requests[r].onResult}

(* C23: when the external fetch of a kind fails, the kind stays pending for *)
(* ever: no callback handed to Dynel.fetch for it is ever invoked, a later  *)
(* Dynel.fetch for it only queues its callback and issues no request, and   *)
(* the failure changes nothing for any other kind.                          *)
C23_FailedStaysPending ==
  [][/\ FailedPending'
     /\ lastOp'.name = "fail" =>
          /\ calls' = <<>>
          /\ cbs' = cbs /\ states' = states /\ fetchCache' = fetchCache
          /\ \A r \in DOMAIN requests :
               requests[r].kind # lastOp'.kind => requests'[r] = requests[r]
     /\ (/\ lastOp'.name = "fetch"
         /\ \E r \in DOMAIN requests :
              requests[r].kind = lastOp'.kind /\ requests[r].phase = "failed")
        => /\ requests' = requests
           /\ calls' = <<>>]_vars

\* a kind whose fetch has failed and for which a callback was queued by the
\* last turn, after the failure, next to a kind that is ready and has served
\* its requester
C23_Witness ==
  /\ lastOp.name = "fetch"
  /\ \E r, q \in DOMAIN requests :
       /\ requests[r].kind = lastOp.kind
       /\ requests[r].phase = "failed"
       /\ Len(Waiters(r)) >= 1
       /\ requests[q].phase = "settled"
       /\ Truthy(Cached(requests[q].kind))
       /\ CallsOf(requests[q].onResult) # <<>>

----------------------------------------------------------------------------
\* the last turn was a setProp or a setState and has left its value readable
\* through both getProp and getState
SharedValue ==
  lastOp.name \in {"setProp", "setState"} =>
    /\ DynelGetProp(Env, lastOp.uid, lastOp.key) = lastOp.val
    /\ DynelGetState(Env, lastOp.uid, lastOp.key) = lastOp.val

\* the last turn and the one before it were a subscription through a and a
\* write through b of the same name of the same instance
Crossed(a, b) ==
  /\ lastOp.name = a /\ lastOp'.name = b
  /\ lastOp'.uid = lastOp.uid /\ lastOp'.key = lastOp.key

(* C24: properties and state of an instance share one key space: after      *)
(* setState(uid, n, v) getProp(uid, n) is v, after setProp(uid, n, v)       *)
(* getState(uid, n) is v, and a setState(uid, n, v) that follows an         *)
(* onProp(uid, n, cb) calls cb with v, as does a setProp that follows an    *)
(* onState.                                                                 *)
C24_SharedKeySpace ==
  [][/\ SharedValue'
     /\ (Crossed("onProp", "setState") \/ Crossed("onState", "setProp"))
        => \E i \in DOMAIN calls' :
             calls'[i].cb = Len(cbs) /\ calls'[i].arg = lastOp'.val]_vars

----------------------------------------------------------------------------
\* the children an assembly leaves in the root of an instance whose root held
\* P, from the template trees T, which hold no script or style and
\* placeholders at the top only, all unnamed: the last of P stands where a
\* placeholder stood
ProjectedLast(T, P) ==
  [i \in DOMAIN T |-> IF T[i].tag = "slot" /\ P # <<>> THEN P[Len(P)] ELSE T[i]]

\* k assemblies in a row
RECURSIVE Reassembled(_, _, _)
Reassembled(T, P, k) == IF k = 0 THEN P ELSE Reassembled(T, ProjectedLast(T, P), k - 1)

\* the attachments of the element el
AttachmentsOf(el) == {c \in Attachments : cbs[c].el = el}

\* the number of times the listener l was called with the element el
ReadyCount(l, el) ==
  Cardinality({j \in DOMAIN cbs[l].got : cbs[l].got[j].arg = ElemVal(el)})

\* the number of times the last turn ran the assembly of the element el
AssemblyCount(el) ==
  Cardinality({i \in DOMAIN calls : cbs[calls[i].cb].beh = "connected" /\ cbs[calls[i].cb].el = el})

\* the template of the element el, once it is there
TemplateFor(el) ==
  LET rs == {r \in DOMAIN requests :
               requests[r].kind = elems[el].sourceId /\ requests[r].phase = "settled"}
  IN requests[CHOOSE r \in rs : TRUE].text

\* every prefixed attribute of the element el is, as a string, the property
\* it names
Reseeded(el) ==
  LET props == PropsSeen(Env, elems[el].uid, nodes[elems[el].node].attrs, 1)
  IN \A j \in DOMAIN props : props[j].prop = StrV(props[j].value)

\* every attachment of the element el whose template is there has run its
\* closure once
OncePerAttachment(el) ==
  \A c \in AttachmentsOf(el) : Truthy(Cached(cbs[c].kind)) => Len(cbs[c].got) = 1

\* the number of assemblies of the element el that are due in the step: one
\* when it is attached with its template there, one for each attachment made
\* so far when its template arrives
Due(el) ==
  IF /\ lastOp'.name = "attach" /\ lastOp'.st = el
     /\ lastOp'.kind \in DOMAIN fetchCache /\ Truthy(Cached(lastOp'.kind))
    THEN 1
  ELSE IF lastOp'.name = "complete" /\ lastOp'.kind = elems[el].sourceId
    THEN Cardinality(AttachmentsOf(el))
  ELSE 0

(* C25: every attachment of an instance runs its lifecycle once its template *)
(* is there: the instance is assembled and its ready event emitted once for  *)
(* each attachment, each assembly takes the children the root held before it *)
(* as the projected children, and leaves every prefixed attribute, also one  *)
(* that a setProp wrote, as the string value of its property.                *)
C25_LifecycleRerun ==
  [][\A el \in DOMAIN elems :
       /\ AssemblyCount(el)' = Due(el)
       /\ OncePerAttachment(el)'
       /\ Due(el) > 0 =>
            /\ KidsOf(nodes, elems[el].root)'
                 = Reassembled(TemplateFor(el)', KidsOf(nodes, elems[el].root), Due(el))
            /\ \A l \in DOMAIN cbs :
                 cbs[l].beh = "probe" => ReadyCount(l, el)' = ReadyCount(l, el) + Due(el)
            /\ Reseeded(el)']_vars

\* an instance attached for the second time with its template there, which
\* has a placeholder: the listener has been called twice with the instance,
\* the old content stands where the placeholder stood, and the property that
\* a setProp wrote as a number is a string
C25_Witness ==
  /\ lastOp.name = "attach"
  /\ LET el == lastOp.st
     IN /\ Cardinality(AttachmentsOf(el)) = 2
        /\ \A c \in AttachmentsOf(el) : Len(cbs[c].got) = 1
        /\ \E l \in DOMAIN cbs : cbs[l].beh = "probe" /\ ReadyCount(l, el) = 2
        /\ TemplateFor(el) = <<SlotT(NoName, <<>>), RefT>>
        /\ KidsOf(nodes, elems[el].root) = <<RefT, RefT>>
        /\ GetAttributeOr([attrs |-> nodes[elems[el].node].attrs], config.propPrefix \o "n", NoName) = "1"
        /\ DynelGetProp(Env, elems[el].uid, "n") = StrV("1")

====
